---- MODULE Spec2Model ----
(***************************************************************************)
(* Model of nbpy: the NBPExchangeRate value object (nbpy/exchange_rate.py) *)
(* and the NBPClient request engine exercised by tests/test_client.py.     *)
(*                                                                         *)
(* Strings are sequences of one-character strings so that str.upper() and  *)
(* str.lower() are computed, not assumed.  Numbers are tagged with their   *)
(* Python representation (Decimal or float).                               *)
(***************************************************************************)
EXTENDS Integers, Sequences, FiniteSets, TLC

(* ------------------------------ bounds --------------------------------- *)
MaxAmount == 2      \* amounts in PLN passed to scaling: 0..MaxAmount
MaxRateVal == 2     \* numeric literals of rates: 1..MaxRateVal (tenths)
MaxDay == 2         \* calendar days 2020-01-01 .. 2020-01-MaxDay
MaxSource == 1      \* source ids "1/A/NBP/2020" .. "<MaxSource>/A/NBP/2020"
FloatBits == 3      \* fraction bits kept by the binary float representation

(* ------------------------------ strings -------------------------------- *)
LowerChars == <<"a", "b", "c", "d", "e", "g", "h", "k", "r", "u", "x", "y">>
UpperChars == <<"A", "B", "C", "D", "E", "G", "H", "K", "R", "U", "X", "Y">>

CharIdx(tbl, c) == CHOOSE i \in 1..Len(tbl) : tbl[i] = c

UpperChar(c) ==
    IF \E i \in 1..Len(LowerChars) : LowerChars[i] = c
    THEN UpperChars[CharIdx(LowerChars, c)] ELSE c

LowerChar(c) ==
    IF \E i \in 1..Len(UpperChars) : UpperChars[i] = c
    THEN LowerChars[CharIdx(UpperChars, c)] ELSE c

\* str.upper()
Upper(s) == [i \in 1..Len(s) |-> UpperChar(s[i])]
\* str.lower()
Lower(s) == [i \in 1..Len(s) |-> LowerChar(s[i])]

\* s spelled in upper case, in lower case and in alternating case
CaseVariants(s) == {Upper(s), Lower(s),
                    [i \in 1..Len(s) |-> IF i % 2 = 1 THEN UpperChar(s[i]) ELSE LowerChar(s[i])]}

(* ---------------------------- the registry ----------------------------- *)
EUR == <<"E", "U", "R">>
HRK == <<"H", "R", "K">>
GYD == <<"G", "Y", "D">>
XXK == <<"X", "X", "K">>

\* nbpy.currencies.currencies: code -> currency (code, tables)
currencies ==
    [c \in {EUR, HRK, GYD} |->
        [code |-> c,
         tables |-> IF c = EUR THEN {"A", "C"}
                    ELSE IF c = HRK THEN {"A"} ELSE {"B"}]]

\* the codes offered to constructors and to the setter
CodeInputs == UNION {CaseVariants(s) : s \in {EUR, HRK, XXK}}

(* ------------------------------ numbers -------------------------------- *)
Kinds == {"Decimal", "float"}
Num(k, n) == [kind |-> k, num |-> n]
RateValsOf(k) == {Num(k, n) : n \in 1..MaxRateVal}
Amounts == 0..MaxAmount

\* the record identifier "<count>/<table>/NBP/<year>"
SourceId(count, table) == <<"no", table, "NBP", "2020", count>>

\* x * amount for a Decimal or float x and an int amount
Times(x, a) == Num(x.kind, x.num * a)

(* ------------------------------ results -------------------------------- *)
Return(v) == [kind |-> "return", value |-> v]
Raise(e, a) == [kind |-> "raise", exc |-> e, arg |-> a]

(* =========================== NBPExchangeRate =========================== *)
VARIABLES
    rate,        \* the instance's __dict__, or [alive |-> FALSE] before construction
    given,       \* the constructor's arguments of the live instance
    out,         \* the last operation on the instance and its outcome
    client,      \* the client's configuration, or [alive |-> FALSE]
    registered,  \* the responses the mock transport holds
    prepared,    \* the arguments of the last _prepare_responses
    last         \* the last operation on the client; for a call: entry point,
                 \* flag, transport log and outcome

rateVars == <<rate, given, out>>
clientVars == <<client, registered, prepared, last>>
vars == <<rate, given, out, client, registered, prepared, last>>

NoRate == [alive |-> FALSE]

HasAttr(obj, name) == name \in DOMAIN obj

\* keyword arguments: any subset of {bid, ask} with values
KwargsInputs(k) ==
    UNION {[ks -> RateValsOf(k)] : ks \in SUBSET {"bid", "ask"}}

\* NBPExchangeRate.currency_code.setter: outcome of assigning code
\* faulty variant: the lookup without the upper-casing
SetCodeBad(code) == IF code \notin DOMAIN currencies
                    THEN Raise("UnknownCurrencyCode", code)
                    ELSE Return(code)
SetCode(code) == IF Upper(code) \notin DOMAIN currencies
                 THEN Raise("UnknownCurrencyCode", Upper(code))
                 ELSE Return(Upper(code))

\* NBPExchangeRate.__init__
\* faulty variant: a lone bid is stored, with ask copied from it
NewRateBad(code, date, source_id, mid, kwargs) ==
    LET base == [alive |-> TRUE, _currency_code |-> SetCode(code).value,
                 date |-> date, source_id |-> source_id, mid |-> mid]
    IN  IF "bid" \in DOMAIN kwargs
        THEN [alive |-> TRUE, _currency_code |-> base._currency_code,
              date |-> date, source_id |-> source_id, mid |-> mid,
              bid |-> kwargs["bid"],
              ask |-> IF "ask" \in DOMAIN kwargs THEN kwargs["ask"] ELSE kwargs["bid"]]
        ELSE base
NewRate(code, date, source_id, mid, kwargs) ==
    LET base == [alive |-> TRUE, _currency_code |-> SetCode(code).value,
                 date |-> date, source_id |-> source_id, mid |-> mid]
    IN  IF "bid" \in DOMAIN kwargs /\ "ask" \in DOMAIN kwargs
        THEN [alive |-> TRUE, _currency_code |-> base._currency_code,
              date |-> date, source_id |-> source_id, mid |-> mid,
              bid |-> kwargs["bid"], ask |-> kwargs["ask"]]
        ELSE base

\* NBPExchangeRate.__call__: the try block raises AttributeError when the
\* instance has no bid (or no ask); the except block then answers mid only
\* faulty variant: ask computed from bid
ScaleBad(obj, amount) ==
    IF HasAttr(obj, "bid") /\ HasAttr(obj, "ask")
    THEN [bid |-> Times(obj.bid, amount), ask |-> Times(obj.bid, amount),
          mid |-> Times(obj.mid, amount)]
    ELSE [mid |-> Times(obj.mid, amount)]
Scale(obj, amount) ==
    IF HasAttr(obj, "bid") /\ HasAttr(obj, "ask")
    THEN [bid |-> Times(obj.bid, amount), ask |-> Times(obj.ask, amount),
          mid |-> Times(obj.mid, amount)]
    ELSE [mid |-> Times(obj.mid, amount)]

\* NBPExchangeRate.__mul__
Mul(obj, amount) == Scale(obj, amount)

\* NBPExchangeRate.__rmul__
RMul(obj, amount) == Scale(obj, amount)

\* NBPExchangeRate.__repr__
Repr(obj) ==
    IF HasAttr(obj, "bid") /\ HasAttr(obj, "ask")
    THEN <<"NBPExchangeRate", obj._currency_code, obj.date, obj.mid, obj.bid, obj.ask>>
    ELSE <<"NBPExchangeRate", obj._currency_code, obj.date, obj.mid>>

\* NBPExchangeRate.currency_name
CurrencyName(obj) == currencies[obj._currency_code]

RateInit ==
    /\ rate = NoRate
    /\ given = NoRate
    /\ out = [op |-> "none"]

\* NBPExchangeRate(code, date, source_id, mid, **kwargs)
Construct ==
    /\ ~rate.alive
    /\ UNCHANGED clientVars
    /\ \E code \in CodeInputs, date \in 1..MaxDay, sid \in {SourceId(n, "A") : n \in 1..MaxSource}, k \in Kinds :
       \E mid \in RateValsOf(k), kwargs \in KwargsInputs(k) :
        LET r == SetCode(code) IN
        IF r.kind = "raise"
        THEN /\ rate' = NoRate
             /\ given' = NoRate
             /\ out' = [op |-> "new", code |-> code, res |-> r]
        ELSE /\ rate' = NewRate(code, date, sid, mid, kwargs)
             /\ given' = [alive |-> TRUE, code |-> code, date |-> date,
                          source_id |-> sid, mid |-> mid, kwargs |-> kwargs]
             /\ out' = [op |-> "new", code |-> code, res |-> Return(TRUE)]

\* rate(amount)
\* faulty variant: scaling in place
CallRateBad ==
    /\ rate.alive
    /\ \E a \in Amounts :
        /\ out' = [op |-> "call", amount |-> a, res |-> Return(Scale(rate, a))]
        /\ rate' = [rate EXCEPT !.mid = Times(rate.mid, a)]
    /\ UNCHANGED given
    /\ UNCHANGED clientVars
CallRate ==
    /\ rate.alive
    /\ \E a \in Amounts : out' = [op |-> "call", amount |-> a, res |-> Return(Scale(rate, a))]
    /\ UNCHANGED <<rate, given>>
    /\ UNCHANGED clientVars

\* rate * amount
MulRate ==
    /\ rate.alive
    /\ \E a \in Amounts : out' = [op |-> "mul", amount |-> a, res |-> Return(Mul(rate, a))]
    /\ UNCHANGED <<rate, given>>
    /\ UNCHANGED clientVars

\* amount * rate
RMulRate ==
    /\ rate.alive
    /\ \E a \in Amounts : out' = [op |-> "rmul", amount |-> a, res |-> Return(RMul(rate, a))]
    /\ UNCHANGED <<rate, given>>
    /\ UNCHANGED clientVars

\* repr(rate)
ReprRate ==
    /\ rate.alive
    /\ out' = [op |-> "repr", res |-> Return(Repr(rate))]
    /\ UNCHANGED <<rate, given>>
    /\ UNCHANGED clientVars

\* rate.currency_name
NameRate ==
    /\ rate.alive
    /\ out' = [op |-> "name", res |-> Return(CurrencyName(rate))]
    /\ UNCHANGED <<rate, given>>
    /\ UNCHANGED clientVars

\* rate.currency_code = code
AssignCode ==
    /\ rate.alive
    /\ \E code \in CodeInputs :
        LET r == SetCode(code) IN
        /\ out' = [op |-> "set", code |-> code, res |-> r]
        /\ rate' = IF r.kind = "raise" THEN rate
                   ELSE [rate EXCEPT !._currency_code = r.value]
    /\ UNCHANGED given
    /\ UNCHANGED clientVars

RateNext ==
    \/ Construct
    \/ CallRate
    \/ MulRate
    \/ RMulRate
    \/ ReprRate
    \/ NameRate
    \/ AssignCode


(* ============================== test mock ============================== *)
DigitChars == <<"0", "1", "2", "3", "4", "5", "6", "7", "8", "9">>
Fmt2(n) == <<DigitChars[((n \div 10) % 10) + 1], DigitChars[(n % 10) + 1]>>

\* date.strftime("%Y-%m-%d") for day d of January 2020
IsoDate(d) == <<"2020", "-", "0", "1", "-">> \o Fmt2(d)
\* datetime.strptime(s, "%Y-%m-%d")
ParseDate(s) == CHOOSE d \in 1..31 : IsoDate(d) = s

Days == 1..MaxDay
StatusCodes == {"200", "400", "404"}

\* the resources the tests register: '', 'today', a date, and a date pair
TailCurrent == << >>
TailToday == <<"today">>
TailDate(d) == IsoDate(d)
TailRange(s, e) == IsoDate(s) \o <<"/">> \o IsoDate(e)

\* MockJSONData.__init__: the URI a response is registered under
\* faulty variant: the code is not lower-cased
MockURIBad(table, code, tail) ==
    <<"BASE_URI", "/exchangerates/rates/">> \o Lower(<<table>>) \o <<"/">>
        \o code \o <<"/">> \o tail
MockURI(table, code, tail) ==
    <<"BASE_URI", "/exchangerates/rates/">> \o Lower(Upper(<<table>>)) \o <<"/">>
        \o Lower(code) \o <<"/">> \o tail

\* MockJSONData.rate_value: the v-th draw of the random generator
RateValue(v) == ((v - 1) % MaxRateVal) + 1

\* MockJSONData.rate: one record of the payload; numbers are JSON literals
\* counted in tenths
MockRate(table, d, v) ==
    IF Upper(<<table>>) = <<"C">>
    THEN [no |-> SourceId(d, table), effectiveDate |-> IsoDate(d),
          bid |-> RateValue(v), ask |-> RateValue(v + 1)]
    ELSE [no |-> SourceId(d, table), effectiveDate |-> IsoDate(d),
          mid |-> RateValue(v)]

\* MockJSONData._date_range
RECURSIVE MockDateRange(_, _)
MockDateRange(d, end) ==
    IF d <= end THEN <<d>> \o MockDateRange(d + 1, end) ELSE << >>

\* MockJSONData.data
MockData(table, code, start, end, v) ==
    LET ds == MockDateRange(start, end) IN
    [table |-> table, code |-> code,
     rates |-> [i \in 1..Len(ds) |-> MockRate(table, ds[i], v)]]

NoJson == [table |-> "", code |-> << >>, rates |-> << >>]

\* _prepare_responses: one response per table of the currency
PreparedResponses(code, tail, start, end, status, v) ==
    { [url |-> MockURI(t, code, tail),
       status |-> status,
       json |-> IF status = "200" THEN MockData(t, code, start, end, v) ELSE NoJson]
      : t \in currencies[code].tables }

(* ============================== NBPClient ============================== *)

NoClient == [alive |-> FALSE]

NoneValue == [type |-> "None", items |-> << >>]
OneRate(r) == [type |-> "rate", items |-> <<r>>]
RateList(rs) == [type |-> "list", items |-> rs]

\* NBPClient.__init__: the code is upper-cased and looked up in the registry
NewClient(code, as_float, suppress_errors) ==
    LET r == SetCode(code) IN
    IF r.kind = "raise" THEN r
    ELSE Return([alive |-> TRUE, currency_code |-> r.value,
                 as_float |-> as_float, suppress_errors |-> suppress_errors])

\* the transport: the registered response for url, or a connection error
Get(url) ==
    IF \E r \in registered : r.url = url
    THEN LET r == CHOOSE r \in registered : r.url = url
         IN  [url |-> url, status |-> r.status, json |-> r.json]
    ELSE [url |-> url, status |-> "ConnectionError", json |-> NoJson]

\* a numeric literal n (tenths) read as Decimal, or as the nearest float
ParseNumber(n, as_float) ==
    IF as_float
    THEN Num("float", (2 * n * (2 ^ FloatBits) + 10) \div 20)
    ELSE Num("Decimal", n)

NoneNum == Num("NoneType", 0)

\* one payload record turned into an NBPExchangeRate
ParseRate(c, rec) ==
    IF "bid" \in DOMAIN rec /\ "ask" \in DOMAIN rec
    THEN NewRate(c.currency_code, ParseDate(rec.effectiveDate), rec.no, NoneNum,
                 [k \in {"bid", "ask"} |->
                    ParseNumber(IF k = "bid" THEN rec.bid ELSE rec.ask, c.as_float)])
    ELSE NewRate(c.currency_code, ParseDate(rec.effectiveDate), rec.no,
                 ParseNumber(rec.mid, c.as_float), << >>)

\* the request shapes and their tails
Shapes ==
    [kind : {"current", "today", "__call__"}]
        \cup [kind : {"date"}, d : Days]
        \cup [kind : {"range"}, start : Days, end : Days]

Resource(shape) ==
    CASE shape.kind \in {"current", "__call__"} -> TailCurrent
      [] shape.kind = "today" -> TailToday
      [] shape.kind = "date" -> TailDate(shape.d)
      [] shape.kind = "range" -> TailRange(shape.start, shape.end)

\* the table a request targets
TargetTable(c, bid_ask) ==
    IF bid_ask THEN "C"
    ELSE CHOOSE t \in currencies[c.currency_code].tables : t # "C"

Locator(c, shape, bid_ask) ==
    <<"BASE_URI", "/exchangerates/rates/">> \o Lower(<<TargetTable(c, bid_ask)>>)
        \o <<"/">> \o Lower(c.currency_code) \o <<"/">> \o Resource(shape)

\* fetch, steps 1-5: the transport log and the outcome before suppression
Fetch(c, shape, bid_ask) ==
    IF bid_ask /\ "C" \notin currencies[c.currency_code].tables
    THEN [log |-> << >>, res |-> Raise("BidAskUnavailable", "")]
    ELSE LET resp == Get(Locator(c, shape, bid_ask)) IN
         IF resp.status # "200"
         THEN [log |-> <<resp>>, res |-> Raise("APIError", resp.status)]
         ELSE LET rs == [i \in 1..Len(resp.json.rates) |-> ParseRate(c, resp.json.rates[i])]
              IN  [log |-> <<resp>>,
                   res |-> IF shape.kind = "range" THEN Return(RateList(rs))
                           ELSE Return(OneRate(rs[1]))]

\* step 6: the suppression policy
Suppress(c, r) ==
    IF c.suppress_errors /\ r.kind = "raise" THEN Return(NoneValue) ELSE r

\* an entry point: range validates its dates, then all enter fetch
\* faulty variant: no validation of the range
RequestBad(c, shape, bid_ask) ==
    LET f == Fetch(c, shape, bid_ask) IN
    [log |-> f.log,
     failure |-> IF f.res.kind = "raise" THEN f.res.exc ELSE "",
     res |-> Suppress(c, f.res)]
Request(c, shape, bid_ask) ==
    IF shape.kind = "range" /\ shape.start > shape.end
    THEN [log |-> << >>, failure |-> "ValidationError",
          res |-> Raise("ValidationError", "")]
    ELSE LET f == Fetch(c, shape, bid_ask) IN
         [log |-> f.log,
          failure |-> IF f.res.kind = "raise" THEN f.res.exc ELSE "",
          res |-> Suppress(c, f.res)]

ClientInit ==
    /\ client = NoClient
    /\ registered = {}
    /\ prepared = [alive |-> FALSE]
    /\ last = [op |-> "none"]

\* NBPClient(currency_code, as_float, suppress_errors)
Create ==
    /\ ~client.alive
    /\ \E code \in CodeInputs, as_float \in BOOLEAN, suppress \in BOOLEAN :
        LET r == NewClient(code, as_float, suppress) IN
        /\ client' = IF r.kind = "raise" THEN NoClient ELSE r.value
        /\ last' = [op |-> "new", code |-> code, suppress |-> suppress, res |-> r]
    /\ UNCHANGED <<registered, prepared>>
    /\ UNCHANGED rateVars

\* the states of the mock's random generator
Draws == 1..MaxRateVal

\* _prepare_responses(currency, date, resource, status_code) for a single day
PrepareResponses ==
    /\ client.alive
    /\ \E shape \in Shapes, d \in Days, status \in StatusCodes,
          v \in Draws :
        /\ shape.kind # "range"
        /\ shape.kind = "date" => d = shape.d
        /\ status # "200" => v = 1
        /\ registered' = PreparedResponses(client.currency_code, Resource(shape), d, d, status, v)
        /\ prepared' = [alive |-> TRUE, tail |-> Resource(shape), status |-> status,
                        start |-> d, end |-> d]
    /\ last' = [op |-> "prepare"]
    /\ UNCHANGED client
    /\ UNCHANGED rateVars

\* the same for a pair of dates
PrepareRangeResponses ==
    /\ client.alive
    /\ \E s \in Days, e \in Days, status \in StatusCodes,
          v \in Draws :
        /\ status # "200" => v = 1
        /\ registered' = PreparedResponses(client.currency_code, TailRange(s, e), s, e, status, v)
        /\ prepared' = [alive |-> TRUE, tail |-> TailRange(s, e), status |-> status,
                        start |-> s, end |-> e]
    /\ last' = [op |-> "prepare"]
    /\ UNCHANGED client
    /\ UNCHANGED rateVars

\* client.current / today / __call__ / date / range (…, bid_ask=…)
Call ==
    /\ client.alive
    /\ \E shape \in Shapes, bid_ask \in BOOLEAN :
        LET r == Request(client, shape, bid_ask) IN
        last' = [op |-> "call", shape |-> shape, bid_ask |-> bid_ask,
                 log |-> r.log, failure |-> r.failure, res |-> r.res]
    /\ UNCHANGED <<client, registered, prepared>>
    /\ UNCHANGED rateVars

ClientNext ==
    \/ Create
    \/ PrepareResponses
    \/ PrepareRangeResponses
    \/ Call

Init == RateInit /\ ClientInit

Next == RateNext \/ ClientNext

\* the two constructors
CtorNext ==
    \/ Construct
    \/ Create

\* the value object alone, the client alone, the constructors, and all
RateSpec == Init /\ [][RateNext]_vars
ClientSpec == Init /\ [][ClientNext]_vars
CtorSpec == Init /\ [][CtorNext]_vars
Spec == Init /\ [][Next]_vars

(* ======================= the tests' expectations ======================= *)
FourEntries == {"current", "today", "__call__", "date"}

\* test_calls: bid_ask_should_fail
\* faulty variant: the currency's tables are not consulted
BidAskShouldFailBad(code, bid_ask) == bid_ask
BidAskShouldFail(code, bid_ask) ==
    bid_ask /\ "C" \notin currencies[code].tables

\* test_calls._test_converter_error
\* faulty variant: suppression is not honoured
TestConverterErrorBad(res, suppress, exc) ==
    res.kind = "raise" /\ res.exc = exc
TestConverterError(res, suppress, exc) ==
    IF suppress
    THEN res.kind = "return" /\ res.value = NoneValue
    ELSE res.kind = "raise" /\ res.exc = exc

\* test_calls: the exception class a status and a flag call for ("" for none)
\* faulty variant: only status 400 counts as an error
ExpectedExceptionBad(status, should_fail) ==
    IF status = "400"
    THEN IF should_fail THEN "BidAskUnavailable" ELSE "APIError"
    ELSE IF should_fail THEN "BidAskUnavailable" ELSE ""
ExpectedException(status, should_fail) ==
    IF status # "200"
    THEN IF should_fail THEN "BidAskUnavailable" ELSE "APIError"
    ELSE IF should_fail THEN "BidAskUnavailable" ELSE ""

\* test_calls: calls_to_test, the resource registered for an entry point
TestResource(shape) ==
    CASE shape.kind = "current" -> TailCurrent
      [] shape.kind = "today" -> TailToday
      [] shape.kind = "__call__" -> TailCurrent
      [] shape.kind = "date" -> TailDate(shape.d)
      [] shape.kind = "range" -> TailRange(shape.start, shape.end)

\* _test_exchange_rate_single: rates_cls
\* faulty variant: the two representations swapped
RatesClsBad(as_float) == IF as_float THEN "Decimal" ELSE "float"
RatesCls(as_float) == IF as_float THEN "float" ELSE "Decimal"

\* _test_exchange_rate_single: the checks on one returned rate
TestExchangeRateSingle(er, code, bid_ask, as_float) ==
    /\ er.alive
    /\ er._currency_code = code
    /\ IF bid_ask /\ "C" \in currencies[code].tables
       THEN /\ HasAttr(er, "bid") /\ er.bid.kind = RatesCls(as_float)
            /\ HasAttr(er, "ask") /\ er.ask.kind = RatesCls(as_float)
       ELSE er.mid.kind = RatesCls(as_float)

\* _test_exchange_rate: one rate, or every rate of a sequence
TestExchangeRate(value, code, bid_ask, as_float) ==
    \A i \in 1..Len(value.items) :
        TestExchangeRateSingle(value.items[i], code, bid_ask, as_float)

\* the mock was prepared for the resource of the last call
PreparedForLast ==
    prepared.alive /\ prepared.tail = TestResource(last.shape)

(* ============================== properties ============================= *)

\* C1: when the currency is not in the bid/ask table, every bid/ask call of
\* current, today, date and the direct invocation fails with
\* BidAskUnavailable (raised, or None under suppression), whatever status is
\* registered, and the transport is invoked zero times.
C1_BidAskCheckedBeforeTransport ==
    (/\ last.op = "call"
     /\ last.shape.kind \in FourEntries
     /\ BidAskShouldFail(client.currency_code, last.bid_ask))
    => /\ last.log = << >>
       /\ last.failure = "BidAskUnavailable"
       /\ TestConverterError(last.res, client.suppress_errors, "BidAskUnavailable")

C1_Witness ==
    /\ last.op = "call"
    /\ last.shape.kind = "today"
    /\ BidAskShouldFail(client.currency_code, last.bid_ask)
    /\ PreparedForLast
    /\ prepared.status = "200"
    /\ last.res.kind = "raise"
    /\ last.log = << >>

\* C2: a call that fails with BidAskUnavailable or APIError returns None
\* (not a sequence, not a rate) when suppress_errors is set, and raises that
\* same error when it is not.
C2_SuppressionPolicy ==
    (/\ last.op = "call"
     /\ last.failure \in {"BidAskUnavailable", "APIError"})
    => /\ TestConverterError(last.res, client.suppress_errors, last.failure)
       /\ client.suppress_errors => last.res.value.type = "None"

C2_Witness ==
    /\ last.op = "call"
    /\ last.failure = "APIError"
    /\ client.suppress_errors
    /\ last.res = Return(NoneValue)

\* C3: a request that passes the bid/ask check makes one transport call; a
\* status other than 200 makes it fail with APIError, a 200 never does, for
\* every entry point.
C3_NonSuccessIsAPIError ==
    (/\ last.op = "call"
     /\ last.failure # "ValidationError"
     /\ ~BidAskShouldFail(client.currency_code, last.bid_ask))
    => /\ Len(last.log) = 1
       /\ last.failure = ExpectedException(last.log[1].status, FALSE)
       /\ PreparedForLast =>
            last.failure = ExpectedException(prepared.status, FALSE)
       /\ last.failure = "APIError" =>
            TestConverterError(last.res, client.suppress_errors, "APIError")
       /\ last.failure = "" => last.res.kind = "return" /\ last.res.value.type # "None"

C3_Witness ==
    /\ last.op = "call"
    /\ last.shape.kind = "date"
    /\ ~last.bid_ask
    /\ client.currency_code = HRK
    /\ PreparedForLast
    /\ prepared.status = "404"
    /\ last.res.kind = "raise"
    /\ last.res.exc = "APIError"

\* C4: constructing a rate or a client with a code that is not in the
\* registry after upper-casing raises UnknownCurrencyCode, whatever
\* suppress_errors is; with a code of the registry in any letter case it
\* succeeds and stores the upper-case code.
C4_ConstructionValidatesCode ==
    /\ out.op = "new" =>
        IF Upper(out.code) \in DOMAIN currencies
        THEN out.res.kind = "return" /\ rate.alive
             /\ rate._currency_code = Upper(out.code)
        ELSE out.res.kind = "raise" /\ out.res.exc = "UnknownCurrencyCode"
             /\ ~rate.alive
    /\ last.op = "new" =>
        IF Upper(last.code) \in DOMAIN currencies
        THEN last.res.kind = "return" /\ client.alive
             /\ client.currency_code = Upper(last.code)
        ELSE last.res.kind = "raise" /\ last.res.exc = "UnknownCurrencyCode"
             /\ ~client.alive

C4_Witness ==
    /\ out.op = "new"
    /\ out.code = Lower(EUR)
    /\ rate.alive
    /\ rate._currency_code = EUR
    /\ last.op = "new"
    /\ last.suppress
    /\ last.res.kind = "raise"

\* C5: rate(a), rate * a and a * rate all return {bid: bid*a, ask: ask*a,
\* mid: mid*a} when the rate has bid and ask, and {mid: mid*a} otherwise.
C5_Expected(a) ==
    IF HasAttr(rate, "bid")
    THEN [bid |-> Num(rate.bid.kind, rate.bid.num * a),
          ask |-> Num(rate.ask.kind, rate.ask.num * a),
          mid |-> Num(rate.mid.kind, rate.mid.num * a)]
    ELSE [mid |-> Num(rate.mid.kind, rate.mid.num * a)]

C5_ScalingIsLinear ==
    /\ out.op \in {"call", "mul", "rmul"} =>
        out.res = Return(C5_Expected(out.amount))
    /\ rate.alive =>
        \A a \in Amounts :
            /\ Scale(rate, a) = C5_Expected(a)
            /\ Mul(rate, a) = C5_Expected(a)
            /\ RMul(rate, a) = C5_Expected(a)

C5_Witness ==
    /\ out.op = "rmul"
    /\ out.amount = 2
    /\ HasAttr(rate, "bid")
    /\ rate.bid # rate.ask
    /\ out.res.value.ask = Num(rate.ask.kind, 2 * rate.ask.num)

\* C6: a constructed rate has bid exactly when it has ask, and has both
\* exactly when both were supplied; a lone bid or ask is ignored and the
\* construction still succeeds.
C6_BidAskTogether ==
    /\ rate.alive =>
        /\ HasAttr(rate, "bid") <=> HasAttr(rate, "ask")
        /\ HasAttr(rate, "bid") <=> {"bid", "ask"} \subseteq DOMAIN given.kwargs
        /\ HasAttr(rate, "bid") =>
            rate.bid = given.kwargs["bid"] /\ rate.ask = given.kwargs["ask"]
    /\ (out.op = "new" /\ Upper(out.code) \in DOMAIN currencies) => rate.alive

C6_Witness ==
    /\ rate.alive
    /\ DOMAIN given.kwargs = {"ask"}
    /\ ~HasAttr(rate, "bid")
    /\ ~HasAttr(rate, "ask")

C8_RangeValidatedBeforeTransport ==
    (/\ last.op = "call"
     /\ last.shape.kind = "range"
     /\ last.shape.start > last.shape.end)
    => /\ last.log = << >>
       /\ last.res.kind = "raise"
       /\ last.res.exc = "ValidationError"

C8_Witness ==
    /\ last.op = "call"
    /\ last.shape.kind = "range"
    /\ last.shape.start > last.shape.end
    /\ last.bid_ask
    /\ PreparedForLast
    /\ prepared.status = "200"
    /\ last.log = << >>

\* C9: every rate of a successful call has mid (mid-only request) or bid
\* and ask (bid/ask request) as Decimal when as_float is false and as float
\* when it is true.
C9_PrecisionMode ==
    (/\ last.op = "call"
     /\ last.res.kind = "return"
     /\ last.res.value.type # "None")
    => /\ TestExchangeRate(last.res.value, client.currency_code,
                           last.bid_ask, client.as_float)
       /\ \A i \in 1..Len(last.res.value.items) :
            LET er == last.res.value.items[i]
                k == IF client.as_float THEN "float" ELSE "Decimal"
            IN  IF last.bid_ask
                THEN er.bid.kind = k /\ er.ask.kind = k
                ELSE er.mid.kind = k

C9_Witness ==
    /\ last.op = "call"
    /\ last.res.kind = "return"
    /\ last.res.value.type = "list"
    /\ Len(last.res.value.items) >= 2
    /\ last.bid_ask
    /\ client.as_float
    /\ last.res.value.items[2].ask.kind = "float"

\* C10: every locator sent is <base>/exchangerates/rates/<table>/<code>/<tail>
\* with the code in lower case, the table C for bid/ask and the currency's
\* mid table otherwise, and the tail of the entry point: empty for current
\* and the direct invocation, 'today', the ISO date, or the pair of dates.
C10_Table ==
    IF last.bid_ask THEN "C"
    ELSE CHOOSE t \in {"A", "B"} : t \in currencies[client.currency_code].tables

C10_LocatorShape ==
    (last.op = "call" /\ last.log # << >>)
    => /\ Len(last.log) = 1
       /\ last.log[1].url =
            MockURI(C10_Table, client.currency_code, TestResource(last.shape))
       /\ last.log[1].url[Len(last.log[1].url)] = "/" <=>
            last.shape.kind \in {"current", "__call__"}

C10_Witness ==
    /\ last.op = "call"
    /\ last.shape.kind = "today"
    /\ ~last.bid_ask
    /\ client.currency_code = EUR
    /\ last.log # << >>
    /\ last.log[1].status = "200"
    /\ last.log[1].url = <<"BASE_URI", "/exchangerates/rates/", "a", "/",
                           "e", "u", "r", "/", "today">>
====
